---- MODULE Spec2Model ----
(***************************************************************************)
(* Model of the CiYi word-guessing plugin (src/src/lib.rs).                *)
(*                                                                         *)
(* The registry (CiYiGameManager: the session map `states` and the list    *)
(* `win_records`) is guarded by one Mutex.  Every inbound message is       *)
(* handled by its own task.  A guess task runs p_fn::guess_word: lock,     *)
(* prepare_guess, unlock, fetch (await, lock free), lock, commit_guess,    *)
(* unlock.  Toggle requests lock, run toggle_direct_guess_mode and unlock. *)
(*                                                                         *)
(* Time is counted in hours since the epoch; the clock advances in steps   *)
(* of 16 hours.  Words are tuples of characters, so that the character     *)
(* count and the n-th character are computed as the code computes them.    *)
(* The fetch of a rank list is the network: it fails or returns the list   *)
(* the server holds for the word.                                          *)
(***************************************************************************)
EXTENDS Integers, Sequences, FiniteSets, TLC

VARIABLES
    states,       \* CiYiGameManager.states: channel id -> session or NoSession
    win_records,  \* CiYiGameManager.win_records
    now,          \* Utc::now(), in hours
    lock,         \* holder of the Mutex<CiYiGameManager>, or NoTask
    tasks,        \* per task: position in guess_word and its locals
    active,       \* the channels (groups) that send messages in this run
    started,      \* number of guess messages handled so far
    accepted,     \* per channel: guesses accepted since the target was assigned
    rank_display  \* config().plugin.rank_display, read from the configuration file

vars == <<states, win_records, now, lock, tasks, active, started, accepted,
          rank_display>>

-----------------------------------------------------------------------------
(* Bounds and data *)

\* The clock advances MaxTicks times; MaxGuesses guess messages are handled.
MaxTicks == 3
MaxGuesses == 3

Channels == {"g1", "g2"}
Users == {"u1", "u2"}
Tasks == {"t1", "t2"}
NoTask == "none"
NoSession == [exists |-> FALSE]

W1 == <<"a", "b">>
W2 == <<"c", "d">>
W3 == <<"e", "f">>
WX == <<"x", "y">>

\* p_const::ALL_WORDS (res/all_words.json) and p_const::QUESTION_WORDS
\* (res/question_words.json): the target pool is part of the guessable words.
ALL_WORDS == {W1, W2, W3}
QUESTION_WORDS == <<W1, W2>>

\* The words a message may carry as its two-character guess.
GuessWords == {W1, W2, W3, WX}

\* event.user_id of the message a task handles: the two tasks handle the
\* messages of two senders.
Sender(t) == IF t = "t1" THEN "u1" ELSE "u2"

\* event.sender.nickname (or the user id when there is no nickname)
Username(u) == IF u = "u1" THEN "n1" ELSE u

\* plugin.direct_guess of config.toml (DEFAULT_CONFIG_STR: false)
DirectGuessDefault == FALSE
\* plugin.history_display of config.toml
HistoryDisplay == 10
\* plugin.rank_display of config.toml (DEFAULT_CONFIG_STR)
RankDisplay == 10

CHINA_TIMEZONE_OFFSET_HOURS == 8

\* The list the rank server holds for a word (index 0 = rank 1).  A list
\* need not hold every word of the dictionary: that of W2 lacks W3.
ServerRankList(w) ==
    IF w = W1 THEN <<W3, W2, W1>>
    ELSE IF w = W2 THEN <<W1, W2>>
    ELSE <<>>

-----------------------------------------------------------------------------
(* Pure helpers *)

Range(s) == {s[i] : i \in 1..Len(s)}

\* chrono date_naive() of a timestamp given in hours
DateNaive(t) == t \div 24

\* Variant: the dates are compared in UTC, without the offset.
is_new_day_utc(state, t) == DateNaive(t) # DateNaive(state.last_start_time)

\* CiYiGameState::is_new_day_in_china_timezone
is_new_day_in_china_timezone(state, t) ==
    DateNaive(t + CHINA_TIMEZONE_OFFSET_HOURS)
        # DateNaive(state.last_start_time + CHINA_TIMEZONE_OFFSET_HOURS)

\* FetchRequest / Option<FetchRequest>
NoRequest == [reason |-> "None", word_to_fetch |-> <<>>]
FetchRequest(w, r) == [reason |-> r, word_to_fetch |-> w]

\* Result<Vec<String>, Box<dyn Error>>
FetchErr == [ok |-> FALSE, list |-> <<>>]
FetchOk(l) == [ok |-> TRUE, list |-> l]
NoResult == [ok |-> FALSE, list |-> <<"none">>]

\* fetch_words_rank_list: the outcomes of one HTTP GET for a word
fetch_words_rank_list(w) == {FetchErr, FetchOk(ServerRankList(w))}

\* QUESTION_WORDS.iter().filter(|w| !state.global_history.contains(w))
Candidates(state) ==
    SelectSeq(QUESTION_WORDS, LAMBDA w : w \notin state.global_history)

\* CiYiGameManager::prepare_guess: the set of values it may return
\* (fastrand picks the index).
prepare_guess(sts, channel_id, t) ==
    IF sts[channel_id] = NoSession
    THEN {FetchRequest(QUESTION_WORDS[i], "NewGame") : i \in 1..Len(QUESTION_WORDS)}
    ELSE LET state == sts[channel_id] IN
         IF state.is_finished /\ is_new_day_in_china_timezone(state, t)
         THEN LET candidates == Candidates(state) IN
              IF candidates = <<>>
              THEN {NoRequest}
              ELSE {FetchRequest(candidates[i], "NewDay") : i \in 1..Len(candidates)}
         ELSE IF ~state.is_finished /\ state.words_rank_list = <<>>
         THEN {FetchRequest(state.target_word, "MissingRankList")}
         ELSE {NoRequest}

-----------------------------------------------------------------------------
(* Response texts of commit_guess and toggle_direct_guess_mode *)

NoMsg == [kind |-> "none"]
\* "获取词语排名失败：{e}"
MsgFetchFailed == [kind |-> "fetch_failed"]
\* "游戏尚未开始，请重试"
MsgNotStarted == [kind |-> "not_started"]
\* "每天只能玩一次哦！"
MsgPlayedToday == [kind |-> "played_today"]
\* "{guess_word} 已猜过"
MsgAlreadyGuessed(g) == [kind |-> "already_guessed", word |-> g]
\* "{guess_word} 不在词库中"
MsgNotInDict(g) == [kind |-> "not_in_dict", word |-> g]
\* "恭喜你猜对了！\n答案：{}\n猜测：{} 次"
MsgWin(target, count) == [kind |-> "win", target |-> target, count |-> count]
\* "{i}. {hint.text}\n" for the first history_display hints, then "..."
MsgHints(hs) == [kind |-> "hints", lines |-> hs]
\* "直接猜测模式 已开启" / "直接猜测模式 已关闭"
MsgToggle(enabled) == [kind |-> "toggle", enabled |-> enabled]

-----------------------------------------------------------------------------
(* commit_guess *)

\* Option<FetchedData>
NoData == [present |-> FALSE, request |-> NoRequest, result |-> NoResult]
FetchedData(req, res) == [present |-> TRUE, request |-> req, result |-> res]

\* The CiYiGameState literal of commit_guess (NewGame) and toggle_direct_guess_mode
NewState(channel_id, target, rank_list, t) ==
    [exists |-> TRUE,
     channel_id |-> channel_id,
     target_word |-> target,
     last_start_time |-> t,
     global_history |-> {target},
     current_guesses |-> {},
     words_rank_list |-> rank_list,
     hints |-> <<>>,
     is_finished |-> FALSE,
     direct_guess_enabled |-> DirectGuessDefault]

\* Variant: the new session is inserted only when the channel has none.
ApplyNewGame_KeepExisting(sts, channel_id, data, t) ==
    IF sts[channel_id] # NoSession THEN sts
    ELSE [sts EXCEPT ![channel_id] =
            NewState(channel_id, data.request.word_to_fetch, data.result.list, t)]

\* FetchReason::NewGame arm: self.states.insert(channel_id, new_state)
ApplyNewGame(sts, channel_id, data, t) ==
    [sts EXCEPT ![channel_id] =
        NewState(channel_id, data.request.word_to_fetch, data.result.list, t)]

\* Variant: the new target is not recorded in global_history.
ApplyNewDay_NoHistory(sts, channel_id, data, t) ==
    IF sts[channel_id] = NoSession THEN sts
    ELSE [sts EXCEPT ![channel_id] =
            [@ EXCEPT !.hints = <<>>,
                      !.current_guesses = {},
                      !.target_word = data.request.word_to_fetch,
                      !.words_rank_list = data.result.list,
                      !.last_start_time = t,
                      !.is_finished = FALSE]]

\* Variant: the hints of the previous target are kept.
ApplyNewDay_KeepHints(sts, channel_id, data, t) ==
    IF sts[channel_id] = NoSession THEN sts
    ELSE [sts EXCEPT ![channel_id] =
            [@ EXCEPT !.current_guesses = {},
                      !.target_word = data.request.word_to_fetch,
                      !.global_history = @ \cup {data.request.word_to_fetch},
                      !.words_rank_list = data.result.list,
                      !.last_start_time = t,
                      !.is_finished = FALSE]]

\* Variant: the guesses of the previous target are kept.
ApplyNewDay_KeepGuesses(sts, channel_id, data, t) ==
    IF sts[channel_id] = NoSession THEN sts
    ELSE [sts EXCEPT ![channel_id] =
            [@ EXCEPT !.hints = <<>>,
                      !.target_word = data.request.word_to_fetch,
                      !.global_history = @ \cup {data.request.word_to_fetch},
                      !.words_rank_list = data.result.list,
                      !.last_start_time = t,
                      !.is_finished = FALSE]]

\* FetchReason::NewDay arm
ApplyNewDay(sts, channel_id, data, t) ==
    IF sts[channel_id] = NoSession THEN sts
    ELSE [sts EXCEPT ![channel_id] =
            [@ EXCEPT !.hints = <<>>,
                      !.current_guesses = {},
                      !.target_word = data.request.word_to_fetch,
                      !.global_history = @ \cup {data.request.word_to_fetch},
                      !.words_rank_list = data.result.list,
                      !.last_start_time = t,
                      !.is_finished = FALSE]]

\* FetchReason::MissingRankList arm
ApplyMissingRankList(sts, channel_id, data) ==
    IF sts[channel_id] = NoSession THEN sts
    ELSE [sts EXCEPT ![channel_id] = [@ EXCEPT !.words_rank_list = data.result.list]]

\* Variant: NewGame data updates an existing session like NewDay data and
\* creates none.
ApplyFetched_NewGameNoInsert(sts, channel_id, data, t) ==
    IF data.request.reason \in {"NewGame", "NewDay"}
    THEN ApplyNewDay(sts, channel_id, data, t)
    ELSE ApplyMissingRankList(sts, channel_id, data)

\* match data.request.reason { ... } for successfully fetched data
ApplyFetched(sts, channel_id, data, t) ==
    IF data.request.reason = "NewGame" THEN ApplyNewGame(sts, channel_id, data, t)
    ELSE IF data.request.reason = "NewDay" THEN ApplyNewDay(sts, channel_id, data, t)
    ELSE ApplyMissingRankList(sts, channel_id, data)

\* Variant: a word that is not found counts as found at index 0.
Position_NotFoundAsFirst(list, g) ==
    IF \E i \in 1..Len(list) : list[i] = g
    THEN (CHOOSE i \in 1..Len(list) : list[i] = g /\ \A j \in 1..(i - 1) : list[j] # g) - 1
    ELSE 0

\* words_rank_list.iter().position(|w| w == &guess_word): 0-based index or -1 (None)
Position(list, g) ==
    IF \E i \in 1..Len(list) : list[i] = g
    THEN (CHOOSE i \in 1..Len(list) : list[i] = g /\ \A j \in 1..(i - 1) : list[j] # g) - 1
    ELSE -1

\* Variant: index.saturating_sub(1), which stays at 0.
WrappingSub1_Saturating(index) == IF index = 0 THEN 0 ELSE index - 1

\* index.wrapping_sub(1): usize::MAX at 0 (a stand-in beyond every Vec length)
WrappingSub1(index) == IF index = 0 THEN 2147483647 ELSE index - 1

Placeholder == "?"

\* .get(i).and_then(|w| w.chars().nth(n)).map_or('？', |c| c), i and n 0-based
CharAt(list, i, n) ==
    IF i >= 0 /\ i < Len(list) /\ n < Len(list[i + 1])
    THEN list[i + 1][n + 1]
    ELSE Placeholder

\* The Hint pushed for a guess found at `index`
MakeHint(list, g, index) ==
    [text |-> [prev |-> CharAt(list, WrappingSub1(index), 1),
               word |-> g,
               next |-> CharAt(list, index + 1, 0),
               rank |-> index + 1],
     rank |-> index + 1]

IsSortedByRank(hs) == \A i \in 1..(Len(hs) - 1) : hs[i].rank <= hs[i + 1].rank

\* Variant: the hints are left in insertion order.
SortUnstable_NoSort(hs) == {hs}

\* hints.sort_unstable() with Ord for Hint comparing rank only: every
\* arrangement of the same hints that is sorted by rank.
SortUnstable(hs) ==
    {h2 \in {[i \in 1..Len(hs) |-> hs[p[i]]] : p \in Permutations(1..Len(hs))} :
        IsSortedByRank(h2)}

\* hints.iter().take(n)
Take(hs, n) == SubSeq(hs, 1, IF Len(hs) < n THEN Len(hs) ELSE n)

Outcome(sts, wins, msg) == [states |-> sts, win_records |-> wins, msg |-> msg]

\* Variant: user id and channel id swapped in the record.
WinRecord_SwappedIds(user_id, username, channel_id, t) ==
    [user_id |-> channel_id, username |-> username, channel_id |-> user_id, timestamp |-> t]

\* WinRecord pushed by a winning guess
WinRecord(user_id, username, channel_id, t) ==
    [user_id |-> user_id, username |-> username, channel_id |-> channel_id, timestamp |-> t]

\* The hints of the session after a non-winning accepted guess (push, then sort)
HintsAfter(state, g) ==
    LET index == Position(state.words_rank_list, g)
        pushed == IF index >= 0
                  THEN Append(state.hints, MakeHint(state.words_rank_list, g, index))
                  ELSE state.hints
    IN SortUnstable(pushed)

\* Variant: the duplicate check is missing.
AlreadyGuessed_Never(state, g) == FALSE

\* state.current_guesses.contains(&guess_word)
AlreadyGuessed(state, g) == g \in state.current_guesses

\* Variant: the count is taken before the guess is inserted.
GuessCount_BeforeInsert(guesses) == Cardinality(guesses) - 1

\* state.current_guesses.len() of the success message (after the insert)
GuessCount(guesses) == Cardinality(guesses)

\* Variant: the guess is looked up in the target pool.
InDictionary_TargetPool(g) == g \in Range(QUESTION_WORDS)

\* ALL_WORDS.contains(&guess_word)
InDictionary(g) == g \in ALL_WORDS

\* Variant: the record replaces the list instead of being pushed.
RecordWin_Replace(wins, record) == <<record>>

\* self.win_records.push(WinRecord { .. })
RecordWin(wins, record) == Append(wins, record)

\* commit_guess from `let state = match self.states.get_mut(channel_id)` on
EvaluateGuess(sts, wins, channel_id, user_id, username, g, t) ==
    IF sts[channel_id] = NoSession THEN {Outcome(sts, wins, MsgNotStarted)}
    ELSE LET state == sts[channel_id] IN
    IF state.is_finished THEN {Outcome(sts, wins, MsgPlayedToday)}
    ELSE IF AlreadyGuessed(state, g) THEN {Outcome(sts, wins, MsgAlreadyGuessed(g))}
    ELSE IF ~InDictionary(g) THEN {Outcome(sts, wins, MsgNotInDict(g))}
    ELSE LET guesses == state.current_guesses \cup {g} IN
    IF g = state.target_word
    THEN {Outcome([sts EXCEPT ![channel_id] =
                       [@ EXCEPT !.current_guesses = guesses, !.is_finished = TRUE]],
                  RecordWin(wins, WinRecord(user_id, username, channel_id, t)),
                  MsgWin(state.target_word, GuessCount(guesses)))}
    ELSE {Outcome([sts EXCEPT ![channel_id] =
                       [@ EXCEPT !.current_guesses = guesses, !.hints = hs]],
                  wins,
                  MsgHints([i \in 1..Len(Take(hs, HistoryDisplay)) |-> hs[i].text]))
            : hs \in HintsAfter(state, g)}

\* Variant: a failed fetch is applied as an empty list before the error is reported.
commit_guess_ErrAsEmpty(sts, wins, channel_id, user_id, username, g, data, t) ==
    IF data.present /\ ~data.result.ok
    THEN {Outcome(ApplyFetched(sts, channel_id, data, t), wins, MsgFetchFailed)}
    ELSE EvaluateGuess(IF data.present THEN ApplyFetched(sts, channel_id, data, t) ELSE sts,
                       wins, channel_id, user_id, username, g, t)

\* CiYiGameManager::commit_guess: the set of its possible outcomes
commit_guess(sts, wins, channel_id, user_id, username, g, data, t) ==
    IF data.present /\ ~data.result.ok
    THEN {Outcome(sts, wins, MsgFetchFailed)}
    ELSE EvaluateGuess(IF data.present THEN ApplyFetched(sts, channel_id, data, t) ELSE sts,
                       wins, channel_id, user_id, username, g, t)

\* Variant: the flag of every existing session is set to the new value.
toggle_direct_guess_mode_AllSessions(sts, channel_id, t) ==
    LET created == IF sts[channel_id] = NoSession
                   THEN {[sts EXCEPT ![channel_id] =
                            NewState(channel_id, QUESTION_WORDS[i], <<>>, t)]
                         : i \in 1..Len(QUESTION_WORDS)}
                   ELSE {sts}
    IN {[states |-> [c \in Channels |->
                        IF s[c] = NoSession THEN NoSession
                        ELSE [s[c] EXCEPT !.direct_guess_enabled =
                                             ~s[channel_id].direct_guess_enabled]],
         msg |-> MsgToggle(~s[channel_id].direct_guess_enabled)] : s \in created}

\* Variant: the message is chosen before the flag is flipped.
toggle_direct_guess_mode_MsgBeforeFlip(sts, channel_id, t) ==
    LET created == IF sts[channel_id] = NoSession
                   THEN {[sts EXCEPT ![channel_id] =
                            NewState(channel_id, QUESTION_WORDS[i], <<>>, t)]
                         : i \in 1..Len(QUESTION_WORDS)}
                   ELSE {sts}
    IN {[states |-> [s EXCEPT ![channel_id].direct_guess_enabled = ~@],
         msg |-> MsgToggle(s[channel_id].direct_guess_enabled)] : s \in created}

\* CiYiGameManager::toggle_direct_guess_mode: the set of its possible outcomes
toggle_direct_guess_mode(sts, channel_id, t) ==
    LET created == IF sts[channel_id] = NoSession
                   THEN {[sts EXCEPT ![channel_id] =
                            NewState(channel_id, QUESTION_WORDS[i], <<>>, t)]
                         : i \in 1..Len(QUESTION_WORDS)}
                   ELSE {sts}
    IN {[states |-> [s EXCEPT ![channel_id].direct_guess_enabled = ~@],
         msg |-> MsgToggle(~s[channel_id].direct_guess_enabled)] : s \in created}

-----------------------------------------------------------------------------
(* Tasks: p_fn::guess_word and the on_msg handler *)

Idle ==
    [pc |-> "idle", group_id |-> "", request |-> NoRequest, result |-> NoResult,
     guess_word |-> <<>>, user_id |-> "", resp |-> NoMsg]

Init ==
    /\ states = [c \in Channels |-> NoSession]
    /\ win_records = <<>>
    /\ now = 0
    /\ lock = NoTask
    /\ tasks = [t \in Tasks |-> Idle]
    /\ active = {"g1"}
    /\ started = 0
    /\ rank_display = RankDisplay
    /\ accepted = [c \in Channels |-> 0]

\* let manager = game_manager_mutex.lock().unwrap(); manager.prepare_guess(&group_id)
LockPrepare(t) ==
    /\ tasks[t].pc = "idle"
    /\ lock = NoTask
    /\ \E c \in Channels : \E req \in prepare_guess(states, c, now) :
          /\ c \in active
          /\ tasks' = [tasks EXCEPT ![t] = [Idle EXCEPT !.pc = "prepare",
                                                        !.group_id = c,
                                                        !.request = req]]
    /\ lock' = t
    /\ started < MaxGuesses
    /\ started' = started + 1
    /\ UNCHANGED <<states, win_records, now, active, accepted, rank_display>>

\* Variant: the guard lives on across the await (the lock is not released).
HolderAfterPrepare_KeptAcrossAwait(t) == t

\* The holder of the mutex once the block around prepare_guess is left
HolderAfterPrepare(t) == NoTask

\* End of the block around prepare_guess: the guard is dropped; the task goes on
\* to the fetch when a request was returned.
UnlockPrepare(t) ==
    /\ tasks[t].pc = "prepare"
    /\ lock = t
    /\ lock' = HolderAfterPrepare(t)
    /\ tasks' = [tasks EXCEPT ![t].pc =
                    IF tasks[t].request = NoRequest THEN "ready" ELSE "fetch"]
    /\ UNCHANGED <<states, win_records, now, active, started, accepted, rank_display>>

\* ciyi_game::fetch_words_rank_list(&req.word_to_fetch).await completes
FetchDone(t) ==
    /\ tasks[t].pc = "fetch"
    /\ \E r \in fetch_words_rank_list(tasks[t].request.word_to_fetch) :
          tasks' = [tasks EXCEPT ![t].pc = "ready", ![t].result = r]
    /\ UNCHANGED <<states, win_records, now, lock, active, started, accepted, rank_display>>

\* The Option<FetchedData> the task hands to commit_guess
DataOf(t) ==
    IF tasks[t].request = NoRequest THEN NoData
    ELSE FetchedData(tasks[t].request, tasks[t].result)

\* The fetched data makes commit_guess assign target_word (NewGame always,
\* NewDay when the session exists).
AssignsTargetData(sts, channel_id, data) ==
    /\ data.present /\ data.result.ok
    /\ \/ data.request.reason = "NewGame"
       \/ data.request.reason = "NewDay" /\ sts[channel_id] # NoSession

\* let mut manager = game_manager_mutex.lock().unwrap(); manager.commit_guess(...)
\* `accepted` counts the guesses the call accepts (answered with the success
\* or the hints message) since the target was assigned.
\* The guess word is an input of the message that nothing reads before
\* commit_guess; it is drawn here.
LockCommit(t) ==
    /\ tasks[t].pc = "ready"
    /\ lock \in {NoTask, t}
    /\ \E g \in GuessWords :
         \E out \in commit_guess(states, win_records, tasks[t].group_id, Sender(t),
                                 Username(Sender(t)), g, DataOf(t), now) :
            /\ states' = out.states
            /\ win_records' = out.win_records
            /\ tasks' = [tasks EXCEPT ![t].pc = "commit",
                                      ![t].guess_word = g,
                                      ![t].user_id = Sender(t),
                                      ![t].resp = out.msg]
            /\ accepted' = [accepted EXCEPT ![tasks[t].group_id] =
                               (IF AssignsTargetData(states, tasks[t].group_id, DataOf(t))
                                THEN 0 ELSE @)
                               + (IF out.msg.kind \in {"win", "hints"} THEN 1 ELSE 0)]
    /\ lock' = t
    /\ UNCHANGED <<now, active, started, rank_display>>

\* End of the block around commit_guess; the response is returned and sent.
UnlockCommit(t) ==
    /\ tasks[t].pc = "commit"
    /\ lock = t
    /\ lock' = NoTask
    /\ tasks' = [tasks EXCEPT ![t] = Idle]
    /\ UNCHANGED <<states, win_records, now, active, started, accepted, rank_display>>

\* on_msg, "切换猜测模式": lock, toggle_direct_guess_mode, unlock
Toggle(c) ==
    /\ c \in active
    /\ lock = NoTask
    /\ \E out \in toggle_direct_guess_mode(states, c, now) : states' = out.states
    /\ UNCHANGED <<win_records, now, lock, tasks, active, started, accepted, rank_display>>

\* The wall clock advances.
Tick ==
    /\ now < MaxTicks * 16
    /\ now' = now + 16
    /\ UNCHANGED <<states, win_records, lock, tasks, active, started, accepted, rank_display>>

Next ==
    \/ \E t \in Tasks : LockPrepare(t)
    \/ \E t \in Tasks : UnlockPrepare(t)
    \/ \E t \in Tasks : FetchDone(t)
    \/ \E t \in Tasks : LockCommit(t)
    \/ \E t \in Tasks : UnlockCommit(t)
    \/ \E c \in Channels : Toggle(c)
    \/ Tick

Spec == Init /\ [][Next]_vars

-----------------------------------------------------------------------------
(* Properties *)

HasSession(c) == states[c] # NoSession

\* Task t runs commit_guess in this step.
CommitStep(t) == tasks[t].pc = "ready" /\ tasks'[t].pc = "commit"

\* The registry as commit_guess sees it once the fetched data of task t is applied.
AfterData(t) ==
    IF DataOf(t).present /\ DataOf(t).result.ok
    THEN ApplyFetched(states, tasks[t].group_id, DataOf(t), now)
    ELSE states

\* Task t's commit_guess assigns target_word of its channel in this step.
CommitAssignsTarget(t) ==
    /\ CommitStep(t)
    /\ DataOf(t).present /\ DataOf(t).result.ok
    /\ \/ tasks[t].request.reason = "NewGame"
       \/ tasks[t].request.reason = "NewDay" /\ HasSession(tasks[t].group_id)

\* Some step of this kind assigns target_word of channel c: a commit with
\* NewGame/NewDay data, or the creation of the session by the toggle.
AssignsTarget(c) ==
    \/ \E t \in Tasks : CommitAssignsTarget(t) /\ tasks[t].group_id = c
    \/ ~HasSession(c) /\ states'[c] # NoSession

\* C1: in guess_word no task holds the registry lock while its fetch is in
\* progress (or while it waits to commit): the lock is held only around
\* prepare_guess and around commit_guess.
C1_NoLockAcrossFetch ==
    \A t \in Tasks : lock = t => tasks[t].pc \in {"prepare", "commit"}

\* A task's fetch is in progress while the other task holds the lock.
C1_Witness ==
    \E t, o \in Tasks : t # o /\ tasks[t].pc = "fetch" /\ lock = o

\* C2 (as claimed): commit_guess called on an unfinished session with the
\* session's target_word as guess always finishes the session and appends
\* exactly one WinRecord of that channel and user.
C2_Original ==
    [][\A t \in Tasks :
        LET c == tasks[t].group_id IN
        (CommitStep(t) /\ HasSession(c) /\ ~states[c].is_finished
           /\ tasks'[t].guess_word = states[c].target_word)
        => /\ states'[c].is_finished
           /\ win_records' = Append(win_records,
                 WinRecord(tasks'[t].user_id, Username(tasks'[t].user_id), c, now))]_vars

\* C2 (amended): when commit_guess gets past its fetched data (none, or a
\* successful fetch) and the session as it is after that data is applied is
\* unfinished with target_word equal to the guess, the call finishes the
\* session and appends exactly one WinRecord of that channel and user.
C2_WinOnTarget ==
    [][\A t \in Tasks :
        LET c == tasks[t].group_id
            mid == AfterData(t) IN
        (CommitStep(t) /\ ~(DataOf(t).present /\ ~DataOf(t).result.ok)
           /\ mid[c] # NoSession /\ ~mid[c].is_finished
           /\ tasks'[t].guess_word = mid[c].target_word)
        => /\ states'[c].is_finished
           /\ Len(win_records') = Len(win_records) + 1
           /\ SubSeq(win_records', 1, Len(win_records)) = win_records
           /\ win_records'[Len(win_records')].channel_id = c
           /\ win_records'[Len(win_records')].user_id = tasks'[t].user_id]_vars

\* A commit that carried freshly fetched data has just won.
C2_Witness ==
    \E t \in Tasks :
        /\ tasks[t].pc = "commit" /\ tasks[t].resp.kind = "win"
        /\ tasks[t].request # NoRequest
        /\ win_records # <<>>
        /\ win_records[Len(win_records)].user_id = tasks[t].user_id

\* C3: in every reachable state every session's hints are sorted
\* non-decreasing by rank.
C3_HintsSorted ==
    \A c \in Channels : HasSession(c) => IsSortedByRank(states[c].hints)

\* A session holds two hints of different ranks.
C3_Witness ==
    \E c \in Channels :
        /\ HasSession(c) /\ Len(states[c].hints) >= 2
        /\ states[c].hints[1].rank < states[c].hints[2].rank

\* C4 (as claimed): when NewDay data is committed on a finished session, the
\* new target_word is not in the session's global_history as it stood just
\* before that commit, under every interleaving.
C4_Original ==
    [][\A t \in Tasks :
        LET c == tasks[t].group_id IN
        (CommitAssignsTarget(t) /\ tasks[t].request.reason = "NewDay"
           /\ states[c].is_finished)
        => tasks[t].request.word_to_fetch \notin states[c].global_history]_vars

\* C5: commit_guess with fetched data whose result is an error returns the
\* fetch-failure message and leaves the sessions and the win records as they
\* were, whatever the fetch reason.
C5_FetchErrorNoChange ==
    [][\A t \in Tasks :
        (CommitStep(t) /\ DataOf(t).present /\ ~DataOf(t).result.ok)
        => /\ states' = states
           /\ win_records' = win_records
           /\ tasks'[t].resp = MsgFetchFailed]_vars

\* A NewDay fetch failed and its commit has answered.
C5_Witness ==
    \E t \in Tasks :
        /\ tasks[t].pc = "commit" /\ tasks[t].resp = MsgFetchFailed
        /\ tasks[t].request.reason = "NewDay"
        /\ states[tasks[t].group_id].is_finished

\* C6: in every reachable state every session's target_word is a member of
\* its global_history.
C6_TargetInHistory ==
    \A c \in Channels :
        HasSession(c) => states[c].target_word \in states[c].global_history

\* A session has rolled over: its history holds two targets.
C6_Witness ==
    \E c \in Channels : HasSession(c) /\ Cardinality(states[c].global_history) >= 2

\* C7: current_guesses and hints are cleared exactly when a target is
\* assigned: the assignment (the application of NewGame/NewDay data, or the
\* creation of the session by the toggle) leaves both empty, so that after the
\* call they hold at most the guess of that call; and a step that assigns no
\* target removes nothing from either.
C7_ClearedWithTarget ==
    [][\A c \in Channels :
        /\ \A t \in Tasks :
              (CommitAssignsTarget(t) /\ tasks[t].group_id = c)
              => /\ AfterData(t)[c].current_guesses = {}
                 /\ AfterData(t)[c].hints = <<>>
                 /\ states'[c].current_guesses \subseteq {tasks'[t].guess_word}
                 /\ \A i \in 1..Len(states'[c].hints) :
                        states'[c].hints[i].text.word = tasks'[t].guess_word
        /\ (~HasSession(c) /\ states'[c] # NoSession /\ ~\E t \in Tasks : CommitStep(t))
              => states'[c].current_guesses = {} /\ states'[c].hints = <<>>
        /\ (HasSession(c) /\ ~AssignsTarget(c))
              => /\ states'[c] # NoSession
                 /\ states'[c].target_word = states[c].target_word
                 /\ states[c].current_guesses \subseteq states'[c].current_guesses
                 /\ Range(states[c].hints) \subseteq Range(states'[c].hints)]_vars

\* A rollover has just cleared a session that held a hint: the committing
\* task's NewDay data was applied and the session holds that task's guess only.
C7_Witness ==
    \E t \in Tasks :
        /\ tasks[t].pc = "commit" /\ tasks[t].request.reason = "NewDay"
        /\ tasks[t].result.ok
        /\ tasks[t].resp.kind = "hints"
        /\ Len(states[tasks[t].group_id].hints) = 1

\* C8 (as claimed): a finished session becomes unfinished only in a step
\* taken when the UTC+8 date of now differs from that of last_start_time.
C8_Original ==
    [][\A c \in Channels :
        (HasSession(c) /\ states[c].is_finished
           /\ states'[c] # NoSession /\ ~states'[c].is_finished)
        => is_new_day_in_china_timezone(states[c], now)]_vars

\* C9 (as claimed): while a session is unfinished no step changes its
\* target_word or empties its non-empty hints or current_guesses.
C9_Original ==
    [][\A c \in Channels :
        (HasSession(c) /\ ~states[c].is_finished)
        => /\ states'[c].target_word = states[c].target_word
           /\ (states[c].current_guesses # {} =>
                  states[c].current_guesses \subseteq states'[c].current_guesses)
           /\ (states[c].hints # <<>> =>
                  Range(states[c].hints) \subseteq Range(states'[c].hints))]_vars

\* C10 (as claimed): a guess on a finished session that has crossed a UTC+8
\* day boundary with the whole target pool in its global_history is answered
\* with a message of its own, distinct from the already-played message, and
\* the session stays finished and unchanged.
C10_Original ==
    [][\A t \in Tasks :
        LET c == tasks[t].group_id IN
        (CommitStep(t) /\ ~DataOf(t).present /\ HasSession(c)
           /\ states[c].is_finished
           /\ is_new_day_in_china_timezone(states[c], now)
           /\ Candidates(states[c]) = <<>>)
        => /\ tasks'[t].resp # MsgPlayedToday
           /\ states' = states]_vars

\* C11 (as claimed): commit_guess called with a guess_word that is already in
\* the unfinished session's current_guesses always returns the
\* already-guessed message and changes neither the sessions nor the win
\* records.
C11_Original ==
    [][\A t \in Tasks :
        LET c == tasks[t].group_id IN
        (CommitStep(t) /\ HasSession(c) /\ ~states[c].is_finished
           /\ tasks'[t].guess_word \in states[c].current_guesses)
        => /\ tasks'[t].resp = MsgAlreadyGuessed(tasks'[t].guess_word)
           /\ states' = states
           /\ win_records' = win_records]_vars

\* C11 (amended): when commit_guess gets past its fetched data (none, or a
\* successful fetch) and the session as it is after that data is applied is
\* unfinished and holds guess_word in current_guesses, the call returns the
\* already-guessed message, leaves the session as the data left it and
\* leaves the win records alone.
C11_DuplicateRejected ==
    [][\A t \in Tasks :
        LET c == tasks[t].group_id
            mid == AfterData(t) IN
        (CommitStep(t) /\ ~(DataOf(t).present /\ ~DataOf(t).result.ok)
           /\ mid[c] # NoSession /\ ~mid[c].is_finished
           /\ tasks'[t].guess_word \in mid[c].current_guesses)
        => /\ tasks'[t].resp = MsgAlreadyGuessed(tasks'[t].guess_word)
           /\ states' = mid
           /\ win_records' = win_records]_vars

\* A commit has just rejected a word the session already holds.
C11_Witness ==
    \E t \in Tasks :
        /\ tasks[t].pc = "commit" /\ tasks[t].resp.kind = "already_guessed"
        /\ HasSession(tasks[t].group_id)
        /\ tasks[t].guess_word \in states[tasks[t].group_id].current_guesses
        /\ ~states[tasks[t].group_id].is_finished

\* Task t runs prepare_guess in this step.
PrepareStep(t) == tasks[t].pc = "idle" /\ tasks'[t].pc = "prepare"

\* C12: prepare_guess follows its decision table and never changes the
\* registry: no session -> NewGame for a word of the target pool; session
\* finished and UTC+8 date of now differs from that of last_start_time ->
\* NewDay for a pool word outside global_history, or no request when there
\* is none; session unfinished with an empty words_rank_list ->
\* MissingRankList for the existing target_word; otherwise no request.
C12_DecisionTable ==
    [][\A t \in Tasks :
        LET c == tasks'[t].group_id
            s == states[c]
            req == tasks'[t].request
            left == IF HasSession(c)
                    THEN Range(QUESTION_WORDS) \ s.global_history ELSE {}
            newDay == HasSession(c) /\ s.is_finished
                        /\ (now + 8) \div 24 # (s.last_start_time + 8) \div 24 IN
        PrepareStep(t)
        => /\ states' = states /\ win_records' = win_records
           /\ IF ~HasSession(c)
              THEN req.reason = "NewGame" /\ req.word_to_fetch \in Range(QUESTION_WORDS)
              ELSE IF newDay
              THEN IF left = {} THEN req = NoRequest
                   ELSE req.reason = "NewDay" /\ req.word_to_fetch \in left
              ELSE IF ~s.is_finished /\ s.words_rank_list = <<>>
              THEN req = FetchRequest(s.target_word, "MissingRankList")
              ELSE req = NoRequest]_vars

\* prepare_guess has just asked for a new day's word on a finished session
\* whose last start is on the same UTC date but on the previous UTC+8 date.
C12_Witness ==
    \E t \in Tasks :
        /\ tasks[t].pc = "prepare" /\ tasks[t].request.reason = "NewDay"
        /\ HasSession(tasks[t].group_id)
        /\ states[tasks[t].group_id].is_finished
        /\ now \div 24 = states[tasks[t].group_id].last_start_time \div 24
        /\ tasks[t].request.word_to_fetch \notin states[tasks[t].group_id].global_history

\* Number of win records of channel c.
WinsOf(c) ==
    Cardinality({i \in 1..Len(win_records) : win_records[i].channel_id = c})

\* C13 (as claimed): concurrent guess tasks leave the registry in a state
\* that some serial order of whole guess operations could produce, no win
\* being lost or duplicated.  Serially every target is assigned once,
\* recorded in global_history and won at most once, so a channel has exactly
\* one win record per target in its global_history other than an unfinished
\* current one.
C13_Original ==
    \A c \in Channels :
        HasSession(c)
        => WinsOf(c) = Cardinality(states[c].global_history)
                         - (IF states[c].is_finished THEN 0 ELSE 1)

\* Guess operations run one at a time: prepare_guess is entered only while
\* no other task is between its prepare and its commit.
SerialLockPrepare(t) ==
    /\ \A o \in Tasks : tasks[o].pc = "idle"
    /\ LockPrepare(t)

SerialNext ==
    \/ \E t \in Tasks : SerialLockPrepare(t)
    \/ \E t \in Tasks : UnlockPrepare(t)
    \/ \E t \in Tasks : FetchDone(t)
    \/ \E t \in Tasks : LockCommit(t)
    \/ \E t \in Tasks : UnlockCommit(t)
    \/ \E c \in Channels : Toggle(c)
    \/ Tick

SpecSerial == Init /\ [][SerialNext]_vars

\* C14: when a task commits successfully fetched NewGame or NewDay data on a
\* channel whose session an earlier commit has already set up, the session's
\* target_word and words_rank_list after the commit are the ones this commit
\* carries (the later committer wins).
C14_LastCommitterWins ==
    [][\A t \in Tasks :
        LET c == tasks[t].group_id IN
        (CommitStep(t) /\ HasSession(c)
           /\ DataOf(t).present /\ DataOf(t).result.ok
           /\ tasks[t].request.reason \in {"NewGame", "NewDay"})
        => /\ states'[c].target_word = tasks[t].request.word_to_fetch
           /\ states'[c].words_rank_list = tasks[t].result.list]_vars

\* A task has committed NewGame data although the channel's session had
\* already been won by the other task at the same instant, so its request
\* was prepared before that commit; the session carries its word and list.
C14_Witness ==
    \E t \in Tasks :
        LET c == tasks[t].group_id IN
        /\ tasks[t].pc = "commit" /\ tasks[t].request.reason = "NewGame"
        /\ tasks[t].result.ok
        /\ win_records # <<>>
        /\ win_records[1].channel_id = c
        /\ win_records[1].user_id # tasks[t].user_id
        /\ win_records[1].timestamp = now
        /\ states[c].target_word = tasks[t].request.word_to_fetch
        /\ states[c].words_rank_list = tasks[t].result.list

\* C15: the success message of a winning commit_guess reports the number of
\* guesses accepted since the target was assigned, the winning one included
\* (rejected guesses are not counted), and finishes the session; a first
\* guess on a fresh channel that equals the target reports 1; a further
\* guess on the finished session on the same UTC+8 day, arriving without
\* fetched data, gets the already-played message and changes nothing.
C15_WinCount ==
    [][\A t \in Tasks :
        LET c == tasks[t].group_id IN
        /\ (CommitStep(t) /\ tasks'[t].resp.kind = "win")
           => /\ tasks'[t].resp.count = accepted'[c]
              /\ tasks'[t].resp.target = tasks'[t].guess_word
              /\ states'[c].is_finished
        /\ (CommitStep(t) /\ ~HasSession(c)
              /\ DataOf(t).present /\ DataOf(t).result.ok
              /\ tasks'[t].guess_word = tasks[t].request.word_to_fetch)
           => /\ tasks'[t].resp = MsgWin(tasks'[t].guess_word, 1)
              /\ states'[c].is_finished
        /\ (CommitStep(t) /\ ~DataOf(t).present /\ HasSession(c)
              /\ states[c].is_finished
              /\ (now + 8) \div 24 = (states[c].last_start_time + 8) \div 24)
           => /\ tasks'[t].resp = MsgPlayedToday
              /\ states' = states
              /\ win_records' = win_records]_vars

\* Three guesses were handled on the channel, the other task is done, and
\* the commit that has just won reports 2: one of the three was not accepted.
C15_Witness ==
    \E t \in Tasks :
        /\ tasks[t].pc = "commit" /\ tasks[t].resp.kind = "win"
        /\ tasks[t].resp.count = 2
        /\ accepted[tasks[t].group_id] = 2
        /\ started = 3
        /\ \A o \in Tasks \ {t} : tasks[o].pc = "idle"
        /\ Len(win_records) = 1
        /\ Len(states[tasks[t].group_id].hints) = 1
        /\ states[tasks[t].group_id].is_finished

\* C16: an accepted non-winning guess found at 0-based index i of
\* words_rank_list (position k = i + 1 below) appends one hint with rank
\* i + 1 whose previous-neighbour character is the second character of the
\* entry at index i - 1, or the placeholder when i = 0, and whose
\* next-neighbour character is the first character of the entry at index
\* i + 1, or the placeholder when i is the last index.
C16_HintNeighbours ==
    [][\A t \in Tasks :
        LET c == tasks[t].group_id
            g == tasks'[t].guess_word
            mid == AfterData(t)
            list == mid[c].words_rank_list IN
        (CommitStep(t) /\ tasks'[t].resp.kind = "hints"
           /\ \E k \in 1..Len(list) : list[k] = g)
        => LET k == CHOOSE k \in 1..Len(list) :
                        list[k] = g /\ \A j \in 1..(k - 1) : list[j] # g
               hint == [text |-> [prev |-> IF k = 1 THEN "?" ELSE list[k - 1][2],
                                  word |-> g,
                                  next |-> IF k = Len(list) THEN "?" ELSE list[k + 1][1],
                                  rank |-> k],
                        rank |-> k] IN
           /\ Len(states'[c].hints) = Len(mid[c].hints) + 1
           /\ Range(states'[c].hints) = Range(mid[c].hints) \cup {hint}]_vars

\* A session holds a hint for the first entry of its rank list (no previous
\* neighbour) and one for the last entry (no next neighbour), and a commit
\* has just added one of them.
C16_Witness ==
    \E t \in Tasks :
        LET c == tasks[t].group_id IN
        /\ tasks[t].pc = "commit" /\ tasks[t].resp.kind = "hints"
        /\ \E h1, h2 \in Range(states[c].hints) :
              /\ h1.rank = 1 /\ h1.text.prev = "?" /\ h1.text.next # "?"
              /\ h2.rank = Len(states[c].words_rank_list)
              /\ h2.text.prev # "?" /\ h2.text.next = "?"
              /\ tasks[t].guess_word \in {h1.text.word, h2.text.word}

-----------------------------------------------------------------------------
(* Leaderboards *)

MaxRecords == 3
BoardNames == {"n1", "n2"}

MsgNobodyWon == [kind |-> "nobody_won"]
MsgLeaderboard(ls) == [kind |-> "leaderboard", lines |-> ls]

\* Variant: the username of the first record of a user is kept.
AddRecord_KeepFirstName(scores, record) ==
    LET u == record.user_id
        entry == IF u \in DOMAIN scores THEN scores[u]
                 ELSE [user_id |-> u, username |-> record.username, score |-> 0]
    IN [x \in DOMAIN scores \cup {u} |->
           IF x = u THEN [entry EXCEPT !.score = @ + 1] ELSE scores[x]]

\* The body of `for record in records`: entry(..).or_insert_with(..), then
\* the username is overwritten and the score incremented.
AddRecord(scores, record) ==
    LET u == record.user_id
        entry == IF u \in DOMAIN scores THEN scores[u]
                 ELSE [user_id |-> u, username |-> record.username, score |-> 0]
    IN [x \in DOMAIN scores \cup {u} |->
           IF x = u THEN [entry EXCEPT !.username = record.username, !.score = @ + 1]
           ELSE scores[x]]

\* The scores map after the loop over the records
RECURSIVE CollectScores(_, _)
CollectScores(scores, records) ==
    IF records = <<>> THEN scores
    ELSE CollectScores(AddRecord(scores, Head(records)), Tail(records))

\* Variant: the comparison is a.score.cmp(&b.score), ascending.
SortedScores_Ascending(scores) ==
    LET n == Cardinality(DOMAIN scores) IN
    {[i \in 1..n |-> scores[f[i]]] :
        f \in {p \in [1..n -> DOMAIN scores] :
                 /\ \A i, j \in 1..n : i # j => p[i] # p[j]
                 /\ \A i \in 1..(n - 1) : scores[p[i]].score <= scores[p[i + 1]].score}}

\* scores.into_values().collect() followed by the stable sort_by on
\* descending score: the HashMap yields its values in any order, so users
\* with equal scores may come out in either order.
SortedScores(scores) ==
    LET n == Cardinality(DOMAIN scores) IN
    {[i \in 1..n |-> scores[f[i]]] :
        f \in {p \in [1..n -> DOMAIN scores] :
                 /\ \A i, j \in 1..n : i # j => p[i] # p[j]
                 /\ \A i \in 1..(n - 1) : scores[p[i]].score >= scores[p[i + 1]].score}}

\* generate_leaderboard: the set of strings it may return, a line
\* "{index}. {username} {score}" kept as a record
generate_leaderboard(records) ==
    LET scores == CollectScores(<<>>, records) IN
    IF DOMAIN scores = {} THEN {MsgNobodyWon}
    ELSE {MsgLeaderboard([i \in 1..Len(Take(sorted, rank_display)) |->
                             [index |-> i,
                              username |-> sorted[i].username,
                              score |-> sorted[i].score]])
            : sorted \in SortedScores(scores)}

get_global_leaderboard(wins) == generate_leaderboard(wins)

get_channel_leaderboard(wins, channel_id) ==
    generate_leaderboard(SelectSeq(wins, LAMBDA r : r.channel_id = channel_id))

\* on_msg, channel leaderboard command: lock, get_channel_leaderboard, unlock
ChannelBoard(t, c) ==
    /\ tasks[t].pc = "idle"
    /\ lock = NoTask
    /\ \E msg \in get_channel_leaderboard(win_records, c) :
          tasks' = [tasks EXCEPT ![t] =
                       [Idle EXCEPT !.pc = "board_channel", !.group_id = c, !.resp = msg]]
    /\ UNCHANGED <<states, win_records, now, lock, active, started, accepted, rank_display>>

\* on_msg, global leaderboard command: lock, get_global_leaderboard, unlock
GlobalBoard(t, c) ==
    /\ tasks[t].pc = "idle"
    /\ lock = NoTask
    /\ \E msg \in get_global_leaderboard(win_records) :
          tasks' = [tasks EXCEPT ![t] =
                       [Idle EXCEPT !.pc = "board_global", !.group_id = c, !.resp = msg]]
    /\ UNCHANGED <<states, win_records, now, lock, active, started, accepted, rank_display>>

\* build_and_send_message(&event, &leaderboard)
SendBoard(t) ==
    /\ tasks[t].pc \in {"board_channel", "board_global"}
    /\ tasks' = [tasks EXCEPT ![t] = Idle]
    /\ UNCHANGED <<states, win_records, now, lock, active, started, accepted, rank_display>>

\* Sequences of at most n elements of S
SeqUpTo(S, n) == UNION {[1..k -> S] : k \in 0..n}

\* A finished session of channel c, for a channel that has win records
WonSession(c) ==
    [NewState(c, W1, ServerRankList(W1), 0)
        EXCEPT !.current_guesses = {W1}, !.is_finished = TRUE]

\* The leaderboards are pure functions of win_records: the registry starts
\* with any list of at most MaxRecords records of the users, under any of
\* their names, in the channels.
BoardInit ==
    /\ win_records \in SeqUpTo([channel_id : Channels, user_id : Users,
                                username : BoardNames, timestamp : {0}], MaxRecords)
    /\ states = [c \in Channels |->
                    IF \E i \in 1..Len(win_records) : win_records[i].channel_id = c
                    THEN WonSession(c) ELSE NoSession]
    /\ now = 0
    /\ lock = NoTask
    /\ tasks = [t \in Tasks |-> Idle]
    /\ active = Channels
    /\ started = 0
    /\ rank_display = RankDisplay
    /\ accepted = [c \in Channels |-> IF states[c] = NoSession THEN 0 ELSE 1]

BoardNext ==
    \/ \E t \in Tasks, c \in Channels : ChannelBoard(t, c)
    \/ \E t \in Tasks, c \in Channels : GlobalBoard(t, c)
    \/ \E t \in Tasks : SendBoard(t)

SpecBoard == BoardInit /\ [][BoardNext]_vars

\* C17: generate_leaderboard returns the nobody-has-won message when its
\* records are empty; otherwise it lists every user of the records once,
\* with the number of the user's records as score and the username of the
\* user's last record (so N records of one user give one line with score N).
\* The channel leaderboard counts only the records of the requested channel.
C17_Leaderboard ==
    \A t \in Tasks :
        tasks[t].pc \in {"board_channel", "board_global"}
        => LET input == {i \in 1..Len(win_records) :
                            \/ tasks[t].pc = "board_global"
                            \/ win_records[i].channel_id = tasks[t].group_id}
               of(u) == {i \in input : win_records[i].user_id = u}
               listed == {u \in Users : of(u) # {}}
               last(u) == CHOOSE i \in of(u) : \A j \in of(u) : j <= i
               lines == tasks[t].resp.lines IN
           IF input = {} THEN tasks[t].resp = MsgNobodyWon
           ELSE /\ tasks[t].resp.kind = "leaderboard"
                /\ Len(lines) = Cardinality(listed)
                /\ \E f \in [1..Len(lines) -> listed] :
                      /\ \A i, j \in 1..Len(lines) : i # j => f[i] # f[j]
                      /\ \A i \in 1..Len(lines) :
                            /\ lines[i].score = Cardinality(of(f[i]))
                            /\ lines[i].username = win_records[last(f[i])].username

\* A channel leaderboard has been computed from three records: two of one
\* user in the channel, the later under another name, and one of another
\* channel; it has one line, with score 2 and the later name.
C17_Witness ==
    \E t \in Tasks :
        /\ tasks[t].pc = "board_channel"
        /\ Len(win_records) = 3
        /\ win_records[1].channel_id = tasks[t].group_id
        /\ win_records[2].channel_id # tasks[t].group_id
        /\ win_records[3].channel_id = tasks[t].group_id
        /\ win_records[1].user_id = win_records[3].user_id
        /\ win_records[1].username # win_records[3].username
        /\ tasks[t].resp = MsgLeaderboard(<<[index |-> 1,
                                             username |-> win_records[3].username,
                                             score |-> 2]>>)

-----------------------------------------------------------------------------
(* Persistence.  In this part a DateTime<Utc> is a count of milliseconds,
   so that the instants Utc::now() returns between two whole seconds exist. *)

\* chrono::serde::ts_seconds: a DateTime is written as its whole seconds
\* since the epoch and read back as the instant of that second.
ts_seconds_serialize(dt) == dt \div 1000
ts_seconds_deserialize(secs) == secs * 1000

\* Variant: direct_guess_enabled is not written.
SerializeState_SkipDirect(state) ==
    [channel_id |-> state.channel_id,
     target_word |-> state.target_word,
     last_start_time |-> ts_seconds_serialize(state.last_start_time),
     global_history |-> state.global_history,
     current_guesses |-> state.current_guesses,
     words_rank_list |-> state.words_rank_list,
     hints |-> state.hints,
     is_finished |-> state.is_finished]

\* #[derive(Serialize)] CiYiGameState: the JSON object of a session
SerializeState(state) ==
    [channel_id |-> state.channel_id,
     target_word |-> state.target_word,
     last_start_time |-> ts_seconds_serialize(state.last_start_time),
     global_history |-> state.global_history,
     current_guesses |-> state.current_guesses,
     words_rank_list |-> state.words_rank_list,
     hints |-> state.hints,
     is_finished |-> state.is_finished,
     direct_guess_enabled |-> state.direct_guess_enabled]

\* #[derive(Deserialize)] CiYiGameState; #[serde(default)] gives false for
\* a missing direct_guess_enabled
DeserializeState(obj) ==
    [exists |-> TRUE,
     channel_id |-> obj.channel_id,
     target_word |-> obj.target_word,
     last_start_time |-> ts_seconds_deserialize(obj.last_start_time),
     global_history |-> obj.global_history,
     current_guesses |-> obj.current_guesses,
     words_rank_list |-> obj.words_rank_list,
     hints |-> obj.hints,
     is_finished |-> obj.is_finished,
     direct_guess_enabled |-> IF "direct_guess_enabled" \in DOMAIN obj
                              THEN obj.direct_guess_enabled ELSE FALSE]

\* #[derive(Serialize, Deserialize)] WinRecord
SerializeRecord(r) == [r EXCEPT !.timestamp = ts_seconds_serialize(@)]
DeserializeRecord(obj) == [obj EXCEPT !.timestamp = ts_seconds_deserialize(@)]

\* save_json_data(self, path): the document written, data_file_path skipped
save(sts, wins) ==
    [states |-> [c \in {x \in Channels : sts[x] # NoSession} |-> SerializeState(sts[c])],
     win_records |-> [i \in 1..Len(wins) |-> SerializeRecord(wins[i])]]

\* load_json_data(default, path) of CiYiGameManager::new
load(doc) ==
    [states |-> [c \in Channels |->
                    IF c \in DOMAIN doc.states
                    THEN DeserializeState(doc.states[c]) ELSE NoSession],
     win_records |-> [i \in 1..Len(doc.win_records) |->
                         DeserializeRecord(doc.win_records[i])]]

\* The plugin is dropped (the registry is saved) and started again (the
\* registry is loaded from the file just written).
Restart ==
    /\ lock = NoTask
    /\ \A t \in Tasks : tasks[t].pc = "idle"
    /\ LET loaded == load(save(states, win_records)) IN
          /\ states' = loaded.states
          /\ win_records' = loaded.win_records
    /\ UNCHANGED <<now, lock, tasks, active, started, accepted, rank_display>>

\* Instants as Utc::now() returns them, between two whole seconds
SaveTimes == {500, 1500, 2500}

\* Sessions of channel c started at time t: one hinted guess made, won or not
SavedSessions(c, t) ==
    LET list == ServerRankList(W1)
        base == [NewState(c, W1, list, t)
                    EXCEPT !.current_guesses = {W3},
                           !.hints = <<MakeHint(list, W3, 0)>>] IN
    {[[base EXCEPT !.direct_guess_enabled = d]
         EXCEPT !.is_finished = f,
                !.current_guesses = IF f THEN {W3, W1} ELSE {W3}]
        : d \in BOOLEAN, f \in BOOLEAN}

\* The round trip is a function of the registry: the registry starts as any
\* one with at most a session of channel g1 and at most MaxRecords records
\* of that channel, a finished session having a record.
SaveInit ==
    /\ win_records \in SeqUpTo([channel_id : {"g1"}, user_id : Users,
                                username : {"n1"}, timestamp : SaveTimes], MaxRecords)
    /\ \E s \in {NoSession} \cup UNION {SavedSessions("g1", t) : t \in SaveTimes} :
          /\ states = [c \in Channels |-> IF c = "g1" THEN s ELSE NoSession]
          /\ (s = NoSession => win_records = <<>>)
          /\ (s # NoSession /\ s.is_finished => win_records # <<>>)
    /\ now = 0
    /\ lock = NoTask
    /\ tasks = [t \in Tasks |-> Idle]
    /\ active = {"g1"}
    /\ started = 0
    /\ rank_display = RankDisplay
    /\ accepted = [c \in Channels |->
                      IF states[c] = NoSession THEN 0
                      ELSE Cardinality(states[c].current_guesses)]

SaveNext == Restart

SpecSave == SaveInit /\ [][SaveNext]_vars

\* C18 (as claimed): saving the registry and loading it again yields sessions
\* and win records equal to the saved ones field by field, last_start_time
\* and timestamp included.
C18_Original ==
    [][Restart => (states' = states /\ win_records' = win_records)]_vars

\* C18 (amended): saving the registry and loading it again yields the saved
\* sessions and win records with every field equal, except that each
\* last_start_time and each timestamp is cut down to its whole second.
C18_RoundTrip ==
    [][Restart =>
        /\ states' = [c \in Channels |->
                         IF states[c] = NoSession THEN NoSession
                         ELSE [states[c] EXCEPT
                                  !.last_start_time = @ - (@ % 1000)]]
        /\ win_records' = [i \in 1..Len(win_records) |->
                              [win_records[i] EXCEPT
                                  !.timestamp = @ - (@ % 1000)]]]_vars

\* A loaded registry: whole-second times, which only a load produces here,
\* with the session's flags, guesses and hints and two records in place.
C18_Witness ==
    /\ HasSession("g1")
    /\ states["g1"].last_start_time = 1000
    /\ states["g1"].direct_guess_enabled
    /\ states["g1"].is_finished
    /\ states["g1"].current_guesses = {W3, W1}
    /\ Len(states["g1"].hints) = 1
    /\ Len(win_records) = 2
    /\ win_records[1].timestamp = 0 /\ win_records[2].timestamp = 2000

\* C19 (as claimed): a session's global_history never loses an element, so
\* that it holds every word that has been the channel's target_word.
C19_Original ==
    [][\A c \in Channels :
        HasSession(c)
        => /\ states'[c] # NoSession
           /\ states[c].global_history \subseteq states'[c].global_history]_vars

\* The toggle command acts on channel c in this step (the only step that
\* changes a session while every task stays where it is).
ToggleStep(c) == tasks' = tasks /\ states'[c] # states[c]

\* C20: toggle_direct_guess_mode on a channel without a session creates one
\* (target from the pool, global_history = {target}, no guesses, hints or
\* rank list, unfinished) without a fetch; every call flips
\* direct_guess_enabled, answers with the message of the new value and
\* changes nothing else; a guess on the session so created asks for the rank
\* list of its target with a MissingRankList request, whose fetched list the
\* commit installs.
C20_Toggle ==
    [][/\ \A c \in Channels :
            ToggleStep(c)
            => /\ \A o \in Channels \ {c} : states'[o] = states[o]
               /\ win_records' = win_records
               /\ \E out \in toggle_direct_guess_mode(states, c, now) :
                     /\ out.states = states'
                     /\ out.msg = MsgToggle(states'[c].direct_guess_enabled)
               /\ IF HasSession(c)
                  THEN states'[c] = [states[c] EXCEPT !.direct_guess_enabled = ~@]
                  ELSE /\ states'[c].target_word \in Range(QUESTION_WORDS)
                       /\ states'[c].global_history = {states'[c].target_word}
                       /\ states'[c].current_guesses = {}
                       /\ states'[c].hints = <<>>
                       /\ states'[c].words_rank_list = <<>>
                       /\ ~states'[c].is_finished
                       /\ states'[c].direct_guess_enabled = ~DirectGuessDefault
       /\ \A t \in Tasks :
            LET c == tasks'[t].group_id IN
            /\ (PrepareStep(t) /\ HasSession(c) /\ ~states[c].is_finished
                  /\ states[c].words_rank_list = <<>>)
               => tasks'[t].request = FetchRequest(states[c].target_word, "MissingRankList")
            /\ (CommitStep(t) /\ HasSession(c)
                  /\ tasks[t].request.reason = "MissingRankList" /\ tasks[t].result.ok)
               => states'[c].words_rank_list = tasks[t].result.list]_vars

\* A guess has been answered with a hint on a session that the toggle
\* created (still holding the flipped flag) and whose rank list came with
\* this guess's MissingRankList request.
C20_Witness ==
    \E t \in Tasks :
        LET c == tasks[t].group_id IN
        /\ tasks[t].pc = "commit" /\ tasks[t].request.reason = "MissingRankList"
        /\ tasks[t].result.ok /\ tasks[t].resp.kind = "hints"
        /\ states[c].direct_guess_enabled = ~DirectGuessDefault
        /\ states[c].words_rank_list = tasks[t].result.list
        /\ states[c].words_rank_list # <<>>
        /\ started = 1

-----------------------------------------------------------------------------
(* The on_msg handler as a whole: every command of a message, each handled
   by its own task.  A task that needs the registry waits for the lock.
   Here task t1 handles the guesses of channel g1; task t2 handles all
   other messages: the guesses of channel g2 and, from either channel, the
   toggle and leaderboard commands. *)

Home(t) == IF t = "t1" THEN "g1" ELSE "g2"

\* A guess with a two-character parameter arrives in the task's channel.
HomeLockPrepare(t) == LockPrepare(t) /\ tasks'[t].group_id = Home(t)

\* format!("无效输入：{}", params[0])
MsgInvalidInput(p) == [kind |-> "invalid_input", param |-> p]

\* Parameter lists of a guess command that guess_word does not let through:
\* none, a one-character and a three-character parameter.
InvalidParams == {<<>>, <<<<"a">>>>, <<<<"a", "b", "c">>>>}

\* The first statement of guess_word.  With no parameter the condition is
\* true through params.is_empty() and the format! argument params[0] then
\* indexes the empty slice, which panics.
guess_word_check(params) ==
    IF params = <<>> \/ Len(params[1]) # 2
    THEN IF params = <<>>
         THEN [panic |-> TRUE, msg |-> NoMsg]
         ELSE [panic |-> FALSE, msg |-> MsgInvalidInput(params[1])]
    ELSE [panic |-> FALSE, msg |-> NoMsg]

\* guess_word returns (or unwinds) at its first statement.
RejectGuess(t, c, params) ==
    /\ tasks[t].pc = "idle"
    /\ c = Home(t)
    /\ LET r == guess_word_check(params) IN
          tasks' = [tasks EXCEPT ![t] =
                       [Idle EXCEPT !.pc = IF r.panic THEN "panicked" ELSE "invalid",
                                    !.group_id = c,
                                    !.resp = r.msg]]
    /\ UNCHANGED <<states, win_records, now, lock, active, started, accepted, rank_display>>

\* The panic unwinds the handler task; no message is sent.
Unwind(t) ==
    /\ tasks[t].pc = "panicked"
    /\ tasks' = [tasks EXCEPT ![t] = Idle]
    /\ UNCHANGED <<states, win_records, now, lock, active, started, accepted, rank_display>>

Commands == {"toggle", "board_channel", "board_global"}

\* A toggle or leaderboard command arrives: its task is about to lock.
ReceiveCommand(t, c, cmd) ==
    /\ tasks[t].pc = "idle"
    /\ c \in active
    /\ tasks' = [tasks EXCEPT ![t] = [Idle EXCEPT !.pc = "wait", !.group_id = c,
                                                  !.guess_word = cmd]]
    /\ UNCHANGED <<states, win_records, now, lock, active, started, accepted, rank_display>>

\* { let mut manager = game_manager.lock().unwrap();
\*   manager.toggle_direct_guess_mode(&group_id) }
RunToggle(t) ==
    /\ tasks[t].pc = "wait" /\ tasks[t].guess_word = "toggle"
    /\ lock = NoTask
    /\ \E out \in toggle_direct_guess_mode(states, tasks[t].group_id, now) :
          /\ states' = out.states
          /\ tasks' = [tasks EXCEPT ![t].pc = "toggled", ![t].resp = out.msg]
    /\ UNCHANGED <<win_records, now, lock, active, started, accepted, rank_display>>

\* { let manager = game_manager.lock().unwrap();
\*   manager.get_channel_leaderboard(&group_id) } and the global one
RunBoard(t) ==
    /\ tasks[t].pc = "wait" /\ tasks[t].guess_word \in {"board_channel", "board_global"}
    /\ lock = NoTask
    /\ \E msg \in IF tasks[t].guess_word = "board_channel"
                  THEN get_channel_leaderboard(win_records, tasks[t].group_id)
                  ELSE get_global_leaderboard(win_records) :
          tasks' = [tasks EXCEPT ![t].pc = tasks[t].guess_word, ![t].resp = msg]
    /\ UNCHANGED <<states, win_records, now, lock, active, started, accepted, rank_display>>

\* build_and_send_message(&event, &response)
SendReply(t) ==
    /\ tasks[t].pc \in {"invalid", "toggled", "board_channel", "board_global"}
    /\ tasks' = [tasks EXCEPT ![t] = Idle]
    /\ UNCHANGED <<states, win_records, now, lock, active, started, accepted, rank_display>>

MsgNext ==
    \/ \E t \in Tasks : HomeLockPrepare(t)
    \/ \E t \in Tasks : UnlockPrepare(t)
    \/ \E t \in Tasks : FetchDone(t)
    \/ \E t \in Tasks : LockCommit(t)
    \/ \E t \in Tasks : UnlockCommit(t)
    \/ \E t \in Tasks \ {"t1"}, c \in Channels, params \in InvalidParams :
          RejectGuess(t, c, params)
    \/ \E t \in Tasks : Unwind(t)
    \/ \E t \in Tasks \ {"t1"}, c \in Channels, cmd \in Commands :
          ReceiveCommand(t, c, cmd)
    \/ \E t \in Tasks : RunToggle(t)
    \/ \E t \in Tasks : RunBoard(t)
    \/ \E t \in Tasks : SendReply(t)

\* The handler starts on the fresh registry; messages arrive in both channels.
MsgInit ==
    /\ states = [c \in Channels |-> NoSession]
    /\ win_records = <<>>
    /\ now = 0
    /\ lock = NoTask
    /\ tasks = [t \in Tasks |-> Idle]
    /\ active = Channels
    /\ started = 0
    /\ rank_display = RankDisplay
    /\ accepted = [c \in Channels |-> 0]

SpecMsg == MsgInit /\ [][MsgNext]_vars

\* A guess command is turned away by the first statement of guess_word.
RejectStep(t) == tasks[t].pc = "idle" /\ tasks'[t].pc \in {"invalid", "panicked"}

\* C21 (as claimed): a guess whose parameter is not exactly two characters,
\* a guess command without any parameter included, is answered with the
\* invalid-input response without the registry being locked or touched, and
\* the handler does not fail.
C21_Original ==
    [][\A t \in Tasks :
        RejectStep(t)
        => /\ tasks'[t].pc = "invalid"
           /\ tasks'[t].resp.kind = "invalid_input"
           /\ lock' = lock
           /\ states' = states /\ win_records' = win_records]_vars

\* C22: when every task follows the protocol (prepare_guess, the fetch it
\* asks for, then commit_guess once with the result), no commit_guess that
\* carries a successful fetch answers with the not-started message: the
\* session exists when the existence check runs.
C22_NeverNotStarted ==
    [][\A t \in Tasks :
        (CommitStep(t) /\ DataOf(t).present /\ DataOf(t).result.ok)
        => /\ AfterData(t)[tasks[t].group_id] # NoSession
           /\ tasks'[t].resp # MsgNotStarted]_vars

\* A commit with successfully fetched NewDay data has passed the existence
\* check and answered the guess.
C22_Witness ==
    \E t \in Tasks :
        /\ tasks[t].pc = "commit" /\ tasks[t].request.reason = "NewDay"
        /\ tasks[t].result.ok
        /\ tasks[t].resp.kind \in {"win", "hints"}

\* C23: the win-record list is append-only: a commit_guess that accepts a
\* guess equal to the target (it answers with the success message) appends
\* exactly one entry, and every other step -- a rejected or hinted guess, a
\* failed fetch, prepare_guess, a toggle, a leaderboard query, a rejected
\* command -- leaves the list as it is; entries are never changed or removed.
C23_AppendOnly ==
    [][IF \E t \in Tasks : CommitStep(t) /\ tasks'[t].resp.kind = "win"
       THEN /\ Len(win_records') = Len(win_records) + 1
            /\ SubSeq(win_records', 1, Len(win_records)) = win_records
       ELSE win_records' = win_records]_vars

\* A second win has just been appended behind the first, after a toggle was
\* answered in that channel.
C23_Witness ==
    \E t \in Tasks :
        /\ tasks[t].pc = "commit" /\ tasks[t].resp.kind = "win"
        /\ Len(win_records) = 2
        /\ win_records[1].channel_id # tasks[t].group_id
        /\ win_records[2].channel_id = tasks[t].group_id
        /\ states[tasks[t].group_id].direct_guess_enabled # DirectGuessDefault

\* The messages with which commit_guess turns a guess down.
Rejections == {"not_started", "played_today", "already_guessed", "not_in_dict"}

\* C24 (as claimed): commit_guess checks session-missing, finished,
\* duplicate, not-in-dictionary in this order, and a call that ends in one
\* of these rejections leaves the session's current_guesses, hints and
\* is_finished and the win records as they were before the call.
C24_Original ==
    [][\A t \in Tasks :
        LET c == tasks[t].group_id IN
        (CommitStep(t) /\ HasSession(c) /\ tasks'[t].resp.kind \in Rejections)
        => /\ states'[c].current_guesses = states[c].current_guesses
           /\ states'[c].hints = states[c].hints
           /\ states'[c].is_finished = states[c].is_finished
           /\ win_records' = win_records]_vars

\* C24 (amended): once past its fetched data (none, or a successful fetch)
\* commit_guess checks session-missing, finished, duplicate,
\* not-in-dictionary in this order on the session as the data left it; a
\* rejection leaves that session and the win records unchanged; a word
\* outside the full word set never enters current_guesses, and guessing the
\* target again after the win is answered already-played.
C24_RejectionOrder ==
    [][\A t \in Tasks :
        LET c == tasks[t].group_id
            g == tasks'[t].guess_word
            mid == AfterData(t) IN
        (CommitStep(t) /\ ~(DataOf(t).present /\ ~DataOf(t).result.ok))
        => /\ IF mid[c] = NoSession THEN tasks'[t].resp = MsgNotStarted
              ELSE IF mid[c].is_finished THEN tasks'[t].resp = MsgPlayedToday
              ELSE IF g \in mid[c].current_guesses
              THEN tasks'[t].resp = MsgAlreadyGuessed(g)
              ELSE IF g \notin ALL_WORDS THEN tasks'[t].resp = MsgNotInDict(g)
              ELSE tasks'[t].resp.kind \in {"win", "hints"}
           /\ tasks'[t].resp.kind \in Rejections
              => states' = mid /\ win_records' = win_records
           /\ states'[c] # NoSession
              => states'[c].current_guesses \subseteq ALL_WORDS]_vars

\* The target has been guessed again after the win and the commit answered
\* already-played.
C24_Witness ==
    \E t \in Tasks :
        LET c == tasks[t].group_id IN
        /\ tasks[t].pc = "commit" /\ tasks[t].resp = MsgPlayedToday
        /\ tasks[t].guess_word = states[c].target_word
        /\ tasks[t].guess_word \in states[c].current_guesses

\* C25: an accepted non-winning guess that does not occur in
\* words_rank_list is still inserted into current_guesses (one more guess
\* counted, a repetition is then a duplicate) while hints keeps the elements
\* it had.
C25_GuessWithoutHint ==
    [][\A t \in Tasks :
        LET c == tasks[t].group_id
            g == tasks'[t].guess_word
            mid == AfterData(t) IN
        (CommitStep(t) /\ tasks'[t].resp.kind = "hints"
           /\ g \notin Range(mid[c].words_rank_list))
        => /\ states'[c].current_guesses = mid[c].current_guesses \cup {g}
           /\ g \notin mid[c].current_guesses
           /\ accepted'[c] = Cardinality(states'[c].current_guesses)
           /\ AlreadyGuessed(states'[c], g)
           /\ Len(states'[c].hints) = Len(mid[c].hints)
           /\ Range(states'[c].hints) = Range(mid[c].hints)
           /\ ~states'[c].is_finished]_vars

\* A dictionary word missing from the session's rank list has just been
\* accepted: it is among the guesses, next to a hinted one, and has no hint.
C25_Witness ==
    \E t \in Tasks :
        LET c == tasks[t].group_id IN
        /\ tasks[t].pc = "commit" /\ tasks[t].resp.kind = "hints"
        /\ states[c].words_rank_list # <<>>
        /\ tasks[t].guess_word \notin Range(states[c].words_rank_list)
        /\ tasks[t].guess_word \in states[c].current_guesses
        /\ Len(states[c].hints) = 1
        /\ Cardinality(states[c].current_guesses) = 2

\* C26 (as claimed): a session's non-empty words_rank_list is always the
\* list fetched for its current target_word.
C26_Original ==
    \A c \in Channels :
        (HasSession(c) /\ states[c].words_rank_list # <<>>)
        => states[c].words_rank_list = ServerRankList(states[c].target_word)

\* C27: operations on one channel never change another channel's session:
\* whatever a task does for its channel -- prepare_guess, commit_guess with
\* any fetched data, the toggle, a leaderboard -- every session keyed by
\* another channel id keeps all its fields.
C27_ChannelIsolation ==
    [][\A t \in Tasks :
        tasks'[t] # tasks[t]
        => \A o \in Channels \ {tasks[t].group_id, tasks'[t].group_id} :
              states'[o] = states[o]]_vars

\* A toggle has been answered in one channel, whose flag now differs from
\* that of the other channel's session, which has been played and won.
C27_Witness ==
    \E t \in Tasks, o \in Channels :
        LET c == tasks[t].group_id IN
        /\ tasks[t].pc = "toggled" /\ o # c
        /\ HasSession(c) /\ HasSession(o)
        /\ states[c].direct_guess_enabled # states[o].direct_guess_enabled
        /\ states[o].is_finished
        /\ states[c].current_guesses # {}

\* The lock is handed over fairly and whoever holds it gives it back: the
\* guarded blocks of guess_word and of the command handlers contain no
\* await.  Nothing is assumed about how long a fetch takes.
LockFairness ==
    \A t \in Tasks :
        /\ SF_vars(LockCommit(t))
        /\ SF_vars(RunToggle(t))
        /\ SF_vars(RunBoard(t))
        /\ WF_vars(UnlockPrepare(t))
        /\ WF_vars(UnlockCommit(t))

MaxLiveGuesses == 2

\* A guess arrives in the task's channel, up to MaxLiveGuesses in all.
LiveLockPrepare(t) == HomeLockPrepare(t) /\ started < MaxLiveGuesses

\* Task t1 handles the guesses of channel g1, one of which may stay in its
\* fetch for ever; task t2 handles the messages of channel g2: guesses,
\* toggles and both leaderboards.
LiveNext ==
    \/ \E t \in Tasks : LiveLockPrepare(t)
    \/ \E t \in Tasks : UnlockPrepare(t)
    \/ \E t \in Tasks : FetchDone(t)
    \/ \E t \in Tasks : LockCommit(t)
    \/ \E t \in Tasks : UnlockCommit(t)
    \/ \E t \in Tasks \ {"t1"}, cmd \in Commands : ReceiveCommand(t, Home(t), cmd)
    \/ \E t \in Tasks : RunToggle(t)
    \/ \E t \in Tasks : RunBoard(t)
    \/ \E t \in Tasks : SendReply(t)

SpecLive == MsgInit /\ [][LiveNext]_vars /\ LockFairness

\* Task t needs the lock: for a toggle or leaderboard command, or to commit
\* its guess.
WaitsForLock(t) == tasks[t].pc \in {"wait", "ready"}

\* Task t has run its operation under the lock.
Served(t) == tasks[t].pc \in {"toggled", "board_channel", "board_global", "commit"}

\* C28: a fetch pending for one channel, for however long, does not keep
\* other work from the lock: under fair lock scheduling a task waiting to
\* commit a guess of another channel, to toggle or to compute a leaderboard
\* gets the lock and runs while that fetch is still outstanding.
C28_Progress ==
    \A t \in Tasks : \A o \in Tasks \ {t} :
        (WaitsForLock(t) /\ tasks[o].pc = "fetch")
            ~> (Served(t) \/ tasks[o].pc # "fetch")

\* The guess of one channel has been committed and answered while the
\* fetch for the other channel is still outstanding.
C28_Witness ==
    \E t, o \in Tasks :
        /\ t # o
        /\ tasks[o].pc = "fetch" /\ tasks[o].group_id # tasks[t].group_id
        /\ tasks[t].pc = "commit" /\ tasks[t].resp.kind \in {"win", "hints"}

-----------------------------------------------------------------------------
(* Leaderboards under a configured rank_display *)

MaxRankDisplay == 2

\* As BoardInit, with rank_display set in the configuration file to a value
\* that can be smaller than the number of users with records.
RankInit ==
    /\ win_records \in SeqUpTo([channel_id : Channels, user_id : Users,
                                username : BoardNames, timestamp : {0}], MaxRecords)
    /\ states = [c \in Channels |->
                    IF \E i \in 1..Len(win_records) : win_records[i].channel_id = c
                    THEN WonSession(c) ELSE NoSession]
    /\ now = 0
    /\ lock = NoTask
    /\ tasks = [t \in Tasks |-> Idle]
    /\ active = Channels
    /\ started = 0
    /\ accepted = [c \in Channels |-> IF states[c] = NoSession THEN 0 ELSE 1]
    /\ rank_display \in 1..MaxRankDisplay

SpecRank == RankInit /\ [][BoardNext]_vars

\* C29: a leaderboard lists users in non-increasing order of score, shows at
\* most rank_display lines (the users with the highest scores, all of them
\* when they are no more than rank_display) and numbers its lines 1, 2, 3,
\* ... from the top.
C29_BoardOrder ==
    \A t \in Tasks :
        (tasks[t].pc \in {"board_channel", "board_global"}
           /\ tasks[t].resp.kind = "leaderboard")
        => LET input == {i \in 1..Len(win_records) :
                            \/ tasks[t].pc = "board_global"
                            \/ win_records[i].channel_id = tasks[t].group_id}
               count(u) == Cardinality({i \in input : win_records[i].user_id = u})
               listed == {u \in Users : count(u) > 0}
               lines == tasks[t].resp.lines
               n == Len(lines) IN
           /\ n <= rank_display
           /\ n = IF Cardinality(listed) < rank_display
                  THEN Cardinality(listed) ELSE rank_display
           /\ \A i \in 1..n : lines[i].index = i
           /\ \A i \in 1..(n - 1) : lines[i].score >= lines[i + 1].score
           /\ \E shown \in SUBSET listed :
                 /\ Cardinality(shown) = n
                 /\ \A u \in listed \ shown : count(u) <= lines[n].score
                 /\ \A i \in 1..n : \E u \in shown : count(u) = lines[i].score

\* With rank_display = 1 and two users with records, a global leaderboard
\* shows the one line of the user with two wins.
C29_Witness ==
    \E t \in Tasks :
        /\ tasks[t].pc = "board_global"
        /\ rank_display = 1
        /\ {win_records[i].user_id : i \in 1..Len(win_records)} = Users
        /\ Len(win_records) = 3
        /\ tasks[t].resp.kind = "leaderboard"
        /\ Len(tasks[t].resp.lines) = 1
        /\ tasks[t].resp.lines[1].score = 2
        /\ tasks[t].resp.lines[1].index = 1

-----------------------------------------------------------------------------
(* The single-call variant (src/src/ciyi_game.rs): handle_guess runs get and *)
(* CiYiGameState::guess on `&mut self`, the fetch included, so one call is   *)
(* one step.                                                                 *)

\* "题库已空"
MsgPoolEmpty == [kind |-> "pool_empty"]
\* "今日已结束 请明天再来"
MsgEndedToday == [kind |-> "ended_today"]

\* CiYiGameManager::get of ciyi_game.rs: the session map after the call
\* (a vacant entry is filled; a failed fetch gives an empty list).
get(sts, channel_id, t) ==
    IF sts[channel_id] # NoSession THEN {sts}
    ELSE UNION {
           {[sts EXCEPT ![channel_id] = NewState(channel_id, QUESTION_WORDS[i], r.list, t)] :
              r \in fetch_words_rank_list(QUESTION_WORDS[i])}
           : i \in 1..Len(QUESTION_WORDS)}

\* guess: Utc::now().date_naive() != self.last_start_time.date_naive()
utc_date_changed(state, t) == DateNaive(t) # DateNaive(state.last_start_time)

\* A step of CiYiGameState::guess: the session, and the message of an early
\* return (NoMsg when the call goes on).
Stage(state, msg) == [state |-> state, msg |-> msg]

\* guess, `if self.is_finished { .. }`: the session is cleared and given its
\* new target before the list is fetched.
RolloverStage(state, t) ==
    IF ~state.is_finished THEN {Stage(state, NoMsg)}
    ELSE IF ~utc_date_changed(state, t) THEN {Stage(state, MsgEndedToday)}
    ELSE LET candidates == Candidates(state) IN
         IF candidates = <<>> THEN {Stage(state, MsgPoolEmpty)}
         ELSE UNION {
              LET cleared == [state EXCEPT !.hints = <<>>,
                                           !.current_guesses = {},
                                           !.target_word = candidates[i]]
              IN {IF r.ok
                  THEN Stage([cleared EXCEPT
                                 !.words_rank_list = r.list,
                                 !.global_history = @ \cup {candidates[i]},
                                 !.last_start_time = t,
                                 !.is_finished = FALSE], NoMsg)
                  ELSE Stage(cleared, MsgFetchFailed)
                  : r \in fetch_words_rank_list(candidates[i])}
              : i \in 1..Len(candidates)}

\* guess, `if self.words_rank_list.is_empty() { .. }`
RefillStage(state) ==
    IF state.words_rank_list # <<>> THEN {Stage(state, NoMsg)}
    ELSE {IF r.ok THEN Stage([state EXCEPT !.words_rank_list = r.list], NoMsg)
                  ELSE Stage(state, MsgFetchFailed)
          : r \in fetch_words_rank_list(state.target_word)}

\* CiYiGameManager::handle_guess of ciyi_game.rs: get, guess, and the push
\* of the win record.  From the duplicate check on, guess has the text of
\* commit_guess.
handle_guess(sts, wins, channel_id, user_id, username, g, t) ==
    UNION {
      UNION {
        IF a.msg # NoMsg
        THEN {Outcome([sts1 EXCEPT ![channel_id] = a.state], wins, a.msg)}
        ELSE UNION {
          IF b.msg # NoMsg
          THEN {Outcome([sts1 EXCEPT ![channel_id] = b.state], wins, b.msg)}
          ELSE EvaluateGuess([sts1 EXCEPT ![channel_id] = b.state], wins,
                             channel_id, user_id, username, g, t)
          : b \in RefillStage(a.state)}
        : a \in RolloverStage(sts1[channel_id], t)}
      : sts1 \in get(sts, channel_id, t)}

\* One message handled by the single-call variant.
SingleGuess(t, c, g) ==
    /\ tasks[t].pc \in {"idle", "single"}
    /\ \E o \in handle_guess(states, win_records, c, Sender(t), Username(Sender(t)), g, now) :
         /\ states' = o.states
         /\ win_records' = o.win_records
         /\ tasks' = [tasks EXCEPT ![t] =
                         [Idle EXCEPT !.pc = "single", !.group_id = c,
                                      !.guess_word = g, !.user_id = Sender(t),
                                      !.resp = o.msg]]
    /\ UNCHANGED <<now, lock, active, started, accepted, rank_display>>

SingleNext ==
    \/ \E c \in active, g \in GuessWords : SingleGuess("t1", c, g)
    \/ Tick

SpecSingle == Init /\ [][SingleNext]_vars

\* A call of the variant on channel c that answered with the fetch failure.
SingleFetchFailure(c) ==
    /\ tasks'["t1"] # tasks["t1"] \/ states' # states
    /\ tasks'["t1"].pc = "single"
    /\ tasks'["t1"].group_id = c
    /\ tasks'["t1"].resp = MsgFetchFailed

\* C30 (as claimed): in the single-call variant a fetch error, during day
\* rollover or during the refill of a missing rank list, answers with the
\* fetch-failure message and leaves the session as it was before the call of
\* guess (for a channel without session: as get created it), and the target
\* stays in global_history.
C30_Original ==
    [][\A c \in Channels :
         SingleFetchFailure(c) =>
           /\ IF states[c] # NoSession
              THEN states'[c] = states[c]
              ELSE \E i \in 1..Len(QUESTION_WORDS) :
                     states'[c] = NewState(c, QUESTION_WORDS[i], <<>>, now)
           /\ states'[c].target_word \in states'[c].global_history]_vars

-----------------------------------------------------------------------------
(* One word per day *)

\* The UTC+8 calendar day of a timestamp
ChinaDate(t) == DateNaive(t + CHINA_TIMEZONE_OFFSET_HOURS)

\* C31 (as claimed): at most one WinRecord is appended for a channel within
\* one UTC+8 calendar day, under every interleaving of guesses, toggles and
\* clock advances.
C31_Original ==
    \A i, j \in 1..Len(win_records) :
        (i < j /\ win_records[i].channel_id = win_records[j].channel_id)
        => ChinaDate(win_records[i].timestamp) # ChinaDate(win_records[j].timestamp)

-----------------------------------------------------------------------------
(* The direct-guess flag *)

\* C32 (as claimed): commit_guess never changes direct_guess_enabled of a
\* session that already exists, so that once toggle_direct_guess_mode has
\* set the flag only another toggle on the channel changes it, under any
\* interleaving with guess tasks.
C32_Original ==
    [][\A t \in Tasks :
         CommitStep(t)
         => \A c \in Channels :
              HasSession(c)
              => /\ states'[c] # NoSession
                 /\ states'[c].direct_guess_enabled
                      = states[c].direct_guess_enabled]_vars

-----------------------------------------------------------------------------
(* Finished sessions *)

\* C33: in every state reachable from the empty registry a session is
\* finished if and only if its target_word is one of its current_guesses.
C33_FinishedIffTargetGuessed ==
    \A c \in Channels :
        HasSession(c)
        => (states[c].is_finished
              <=> states[c].target_word \in states[c].current_guesses)

\* A session that was won, rolled over to a new target and has an accepted
\* guess that is not the new target.
C33_Witness ==
    /\ HasSession("g1")
    /\ Cardinality(states["g1"].global_history) = 2
    /\ ~states["g1"].is_finished
    /\ states["g1"].current_guesses # {}
    /\ WinsOf("g1") >= 1

-----------------------------------------------------------------------------
(* Direct guesses: a bare two-character message (on_msg, "直接猜测模式") *)

\* CiYiGameManager::get_direct_guess_status; the call only reads the registry.
get_direct_guess_status(sts, channel_id, t) ==
    IF sts[channel_id] # NoSession
    THEN LET s == sts[channel_id] IN
         (is_new_day_in_china_timezone(s, t) \/ ~s.is_finished) /\ s.direct_guess_enabled
    ELSE DirectGuessDefault

\* A message of two characters arrives in channel c: lock,
\* get_direct_guess_status, unlock.  The task goes on to guess_word when the
\* status is true and to the command parser otherwise.  `started` counts the
\* bare messages.
BareMessage(t, c) ==
    /\ tasks[t].pc = "idle"
    /\ c \in active
    /\ lock = NoTask
    /\ tasks' = [tasks EXCEPT ![t] =
                    [Idle EXCEPT !.pc = IF get_direct_guess_status(states, c, now)
                                        THEN "direct" ELSE "parse",
                                 !.group_id = c]]
    /\ started < MaxGuesses
    /\ started' = started + 1
    /\ UNCHANGED <<states, win_records, now, lock, active, accepted, rank_display>>

\* p_fn::guess_word(&event, &[text], &game_manager): the block around
\* prepare_guess, entered from the direct-guess branch.
DirectPrepare(t) ==
    /\ tasks[t].pc = "direct"
    /\ lock = NoTask
    /\ \E req \in prepare_guess(states, tasks[t].group_id, now) :
          tasks' = [tasks EXCEPT ![t].pc = "prepare", ![t].request = req]
    /\ lock' = t
    /\ UNCHANGED <<states, win_records, now, active, started, accepted, rank_display>>

\* The two characters are no command: parse_command finds nothing to run.
NoCommand(t) ==
    /\ tasks[t].pc = "parse"
    /\ tasks' = [tasks EXCEPT ![t] = Idle]
    /\ UNCHANGED <<states, win_records, now, lock, active, started, accepted, rank_display>>

\* Bare messages, the toggle command and the clock.
DirectNext ==
    \/ \E c \in Channels : BareMessage("t1", c)
    \/ DirectPrepare("t1")
    \/ NoCommand("t1")
    \/ UnlockPrepare("t1")
    \/ FetchDone("t1")
    \/ LockCommit("t1")
    \/ UnlockCommit("t1")
    \/ \E c \in Channels : Toggle(c)
    \/ Tick

SpecDirect == Init /\ [][DirectNext]_vars

\* Task t ran get_direct_guess_status in this step.
BareStep(t) == tasks[t].pc = "idle" /\ tasks'[t].pc \in {"direct", "parse"}

\* The session of channel c was won on the UTC+8 day of t.
FinishedToday(c, t) ==
    /\ HasSession(c) /\ states[c].is_finished
    /\ \E i \in 1..Len(win_records) :
          /\ win_records[i].channel_id = c
          /\ ChinaDate(win_records[i].timestamp) = ChinaDate(t)

\* C34 (as claimed): get_direct_guess_status returns the configured default
\* for a channel without session and, for a session, true exactly when
\* direct_guess_enabled holds and the session is unfinished or the UTC+8
\* date of now differs from that of last_start_time; a bare two-character
\* message in a channel whose session finished today is not treated as a
\* guess; the call changes nothing in the registry.
C34_Original ==
    [][\A t \in Tasks :
         BareStep(t)
         => LET c == tasks'[t].group_id
                direct == tasks'[t].pc = "direct"
            IN /\ IF HasSession(c)
                  THEN direct <=> /\ states[c].direct_guess_enabled
                                  /\ \/ ~states[c].is_finished
                                     \/ ChinaDate(now) # ChinaDate(states[c].last_start_time)
                  ELSE direct <=> DirectGuessDefault
               /\ FinishedToday(c, now) => ~direct
               /\ states' = states /\ win_records' = win_records]_vars

====
